---------------------------- MODULE Spec2Model ----------------------------
(***************************************************************************)
(* Model of the Vulkan bring-up code of rtrt: physical-device selection    *)
(* (src/vulkan/device.rs) and the chain of reference-counted contexts      *)
(* Surface <- Device <- Swapchain <- RenderPass (device.rs,                *)
(* render_pass.rs).                                                        *)
(*                                                                         *)
(* A Rust Result<T> is the record [tag, val]: tag "Ok" carries the value,  *)
(* tag "Err" carries the error text.  An Option<(u32, u32)> is a sequence: *)
(* <<>> for None and <<g, p>> for Some((g, p)).  Family indices are the    *)
(* 0-based u32 indices of the code; TLA+ sequences are 1-based, so the     *)
(* family with index i is props[i + 1].                                    *)
(***************************************************************************)
EXTENDS Integers, Sequences, FiniteSets, TLC

VARIABLES
    driver,     \* what the Vulkan instance and the surface answer: the enumeration
    qf,         \* the last result of find_queue_families, with its device
    sel,        \* the result of select_physical_device in the last DeviceCtx::new
    support,    \* the last result of DeviceCtx::current_swapchain_support
    outcome,    \* the last constructor call: which one, its Result, its parent
    ctx,        \* the contexts ever constructed, in construction order
    host,       \* host[n]: the Rc handles to context n held outside the chain
    native,     \* the native Vulkan objects currently allocated
    released,   \* the contexts whose native object was destroyed, in order
    waited      \* the device contexts on which device_wait_idle has completed

vars == <<driver, qf, sel, support, outcome, ctx, host, native, released, waited>>

----------------------------------------------------------------------------
(* Bounds of the model. *)

MaxDevices == 2

MaxFamilies == 3

MaxCtx == 4

MaxHostRefs == 2
\* The contexts of the probing specification: the surface and the devices.
MaxProbeCtx == 3

----------------------------------------------------------------------------
(* Rust values. *)

Ok(v) == [tag |-> "Ok", val |-> v]

Err(e) == [tag |-> "Err", val |-> e]

IsOk(r) == r.tag = "Ok"

Range(s) == {s[i] : i \in 1..Len(s)}

SeqsUpTo(S, n) == UNION {[1..k -> S] : k \in 0..n}

VkError == "VkError"

NoSuitableDevice == "No suitable physical device"

SwapchainExtension == "VK_KHR_swapchain"

get_required_device_extensions == <<SwapchainExtension>>

----------------------------------------------------------------------------
(* The driver's data for one physical device.                              *)
(*   families[i+1]  queue family i: its queue_count, whether its flags     *)
(*                  contain GRAPHICS, and the driver's answer to           *)
(*                  get_physical_device_surface_support for index i        *)
(*   extensions     the Result of enumerate_device_extension_properties    *)
(*   capabilities, formats, present_modes                                  *)
(*                  the Results of the three surface queries               *)

QueueFamily == [queue_count : {0, 1}, graphics : BOOLEAN,
                present : {"true", "false", "err"}]

Fam(c, g, p) == [queue_count |-> c, graphics |-> g, present |-> p]

FamilyLists == SeqsUpTo(QueueFamily, MaxFamilies)

ExtensionAnswers ==
    { Ok(<<SwapchainExtension>>), Ok(<<"VK_KHR_maintenance1">>), Err(VkError) }

Fmt == "B8G8R8A8_SRGB"

Fifo == "FIFO"

SurfaceAnswers ==
    { [capabilities |-> Ok("caps"), formats |-> Ok(<<Fmt>>), present_modes |-> Ok(<<Fifo>>)],
      [capabilities |-> Ok("caps"), formats |-> Ok(<<>>), present_modes |-> Ok(<<Fifo>>)],
      [capabilities |-> Ok("caps"), formats |-> Ok(<<Fmt>>), present_modes |-> Ok(<<>>)],
      [capabilities |-> Ok("caps"), formats |-> Err(VkError), present_modes |-> Ok(<<Fifo>>)] }

GoodSurface == [capabilities |-> Ok("caps"), formats |-> Ok(<<Fmt>>), present_modes |-> Ok(<<Fifo>>)]

Device(fams, exts, surf) ==
    [families |-> fams, extensions |-> exts, capabilities |-> surf.capabilities,
     formats |-> surf.formats, present_modes |-> surf.present_modes]

----------------------------------------------------------------------------
(* CapabilityProbe. *)

\* get_physical_device_surface_support(device, index, surface): the driver
\* answers for the family that has index `index` on the device.
get_physical_device_surface_support(device, index) ==
    device.families[index + 1].present

\* The loop of find_queue_families from its k-th iteration on, over the
\* families that passed the queue_count filter; -1 stands for None.
RECURSIVE find_queue_families_loop(_, _, _, _, _)
find_queue_families_loop(device, filtered, k, graphics, present) ==
    IF k > Len(filtered) THEN Ok(<<>>)
    ELSE
      LET family == filtered[k]
          index == k - 1
          graphics1 == IF family.graphics /\ graphics = -1 THEN index ELSE graphics
          present_support == get_physical_device_surface_support(device, index)
          present1 == IF present_support = "true" /\ present = -1 THEN index ELSE present
      IN IF present_support = "err" THEN Err(VkError)
         ELSE IF graphics1 # -1 /\ present1 # -1 THEN Ok(<<graphics1, present1>>)
         ELSE find_queue_families_loop(device, filtered, k + 1, graphics1, present1)

find_queue_families(device) ==
    LET props == device.families
        filtered == SelectSeq(props, LAMBDA f : f.queue_count > 0)
    IN find_queue_families_loop(device, filtered, 1, -1, -1)

\* A query sent to the driver: its name, the device handle it is about (0
\* for the enumeration) and the family index it carries (-1 when none).
Query(name, handle, index) == [query |-> name, device |-> handle, index |-> index]

\* The present-support queries of the loop of find_queue_families from its
\* k-th iteration on: one per iteration, up to the iteration that returns.
RECURSIVE find_queue_families_loop_queries(_, _, _, _, _, _)
find_queue_families_loop_queries(handle, device, filtered, k, graphics, present) ==
    IF k > Len(filtered) THEN <<>>
    ELSE
      LET family == filtered[k]
          index == k - 1
          graphics1 == IF family.graphics /\ graphics = -1 THEN index ELSE graphics
          present_support == get_physical_device_surface_support(device, index)
          present1 == IF present_support = "true" /\ present = -1 THEN index ELSE present
          q == Query("get_physical_device_surface_support", handle, index)
      IN IF present_support = "err" THEN <<q>>
         ELSE IF graphics1 # -1 /\ present1 # -1 THEN <<q>>
         ELSE <<q>> \o find_queue_families_loop_queries(handle, device, filtered,
                                                        k + 1, graphics1, present1)

\* The queries of find_queue_families on the device with handle `handle`.
find_queue_families_queries(handle, device) ==
    LET props == device.families
        filtered == SelectSeq(props, LAMBDA f : f.queue_count > 0)
    IN <<Query("get_physical_device_queue_family_properties", handle, -1)>>
       \o find_queue_families_loop_queries(handle, device, filtered, 1, -1, -1)

test_required_extensions(device, required_device_extensions) ==
    IF ~IsOk(device.extensions) THEN Err(VkError)
    ELSE LET extension_names == Range(device.extensions.val)
         IN Ok(\A i \in 1..Len(required_device_extensions) :
                  required_device_extensions[i] \in extension_names)

current_swapchain_support_impl(device) ==
    IF ~IsOk(device.capabilities) THEN Err(VkError)
    ELSE IF ~IsOk(device.formats) THEN Err(VkError)
    ELSE IF ~IsOk(device.present_modes) THEN Err(VkError)
    ELSE Ok([capabilities |-> device.capabilities.val,
             formats |-> device.formats.val,
             present_modes |-> device.present_modes.val])

----------------------------------------------------------------------------
(* DeviceSelector. *)

\* PhysicalDeviceInfo without the comparison of the two indices.
PhysicalDeviceInfo_no_dedup(device, graphics_family_index, present_family_index) ==
    [device |-> device,
     graphics_family_index |-> graphics_family_index,
     present_family_index |-> present_family_index,
     dedup_family_indices |-> <<graphics_family_index, present_family_index>>]

PhysicalDeviceInfo(device, graphics_family_index, present_family_index) ==
    [device |-> device,
     graphics_family_index |-> graphics_family_index,
     present_family_index |-> present_family_index,
     dedup_family_indices |->
        IF graphics_family_index = present_family_index
        THEN <<graphics_family_index>>
        ELSE <<graphics_family_index, present_family_index>>]

\* Lines 32-34: find_queue_families on every enumerated device, collected
\* into a Result: the first Err ends the collection and is returned by `?`.
devices_and_queues(devices) ==
    IF \E i \in 1..Len(devices) : ~IsOk(find_queue_families(devices[i]))
    THEN Err(VkError)
    ELSE Ok([i \in 1..Len(devices) |-> find_queue_families(devices[i]).val])

\* swapchain_is_adequate without the test of the present modes.
swapchain_is_adequate_formats_only(swapchain_support_details) ==
    swapchain_support_details.formats # <<>>

swapchain_is_adequate(swapchain_support_details) ==
    /\ swapchain_support_details.formats # <<>>
    /\ swapchain_support_details.present_modes # <<>>

\* Lines 36-53, the closure of filter_map: <<>> is None, <<info>> is Some(info).
\* The device handle is the device's position in the enumeration.  The
\* debug_device_name, read by an infallible query, is left out of the record.
filter_map_candidate(handle, device, queues, required_device_extensions) ==
    IF queues = <<>> THEN <<>>
    ELSE LET supports_required_extensions ==
                 test_required_extensions(device, required_device_extensions)
             swapchain_support_details == current_swapchain_support_impl(device)
         IN IF ~IsOk(supports_required_extensions) THEN <<>>
            ELSE IF ~supports_required_extensions.val THEN <<>>
            ELSE IF ~IsOk(swapchain_support_details) THEN <<>>
            ELSE IF ~swapchain_is_adequate(swapchain_support_details.val) THEN <<>>
            ELSE <<PhysicalDeviceInfo(handle, queues[1], queues[2])>>

\* The queries of current_swapchain_support_impl: each `?` ends them.
current_swapchain_support_queries(handle, device) ==
    <<Query("get_physical_device_surface_capabilities", handle, -1)>>
    \o (IF ~IsOk(device.capabilities) THEN <<>>
        ELSE <<Query("get_physical_device_surface_formats", handle, -1)>>
             \o (IF ~IsOk(device.formats) THEN <<>>
                 ELSE <<Query("get_physical_device_surface_present_modes", handle, -1)>>))

\* The queries of one run of the filter_map closure.
filter_map_candidate_queries(handle, device, queues, required_device_extensions) ==
    IF queues = <<>> THEN <<>>
    ELSE LET supports_required_extensions ==
                 test_required_extensions(device, required_device_extensions)
             ext == <<Query("enumerate_device_extension_properties", handle, -1)>>
         IN IF ~IsOk(supports_required_extensions) THEN ext
            ELSE IF ~supports_required_extensions.val THEN ext
            ELSE ext \o current_swapchain_support_queries(handle, device)
                 \o (IF filter_map_candidate(handle, device, queues,
                                             required_device_extensions) = <<>>
                     THEN <<>>
                     ELSE <<Query("get_physical_device_properties", handle, -1)>>)

\* Lines 32-34: find_queue_families runs on the devices in order, from the
\* i-th on, until one returns Err.
RECURSIVE devices_and_queues_queries(_, _)
devices_and_queues_queries(devices, i) ==
    IF i > Len(devices) THEN <<>>
    ELSE find_queue_families_queries(i, devices[i])
         \o (IF ~IsOk(find_queue_families(devices[i])) THEN <<>>
             ELSE devices_and_queues_queries(devices, i + 1))

\* Lines 35-54: the closure runs on the collected devices in order, from the
\* i-th on, until it yields Some: next() asks for one item only.
RECURSIVE filter_map_queries(_, _, _, _)
filter_map_queries(devices, collected, i, required_device_extensions) ==
    IF i > Len(devices) THEN <<>>
    ELSE filter_map_candidate_queries(i, devices[i], collected[i],
                                      required_device_extensions)
         \o (IF filter_map_candidate(i, devices[i], collected[i],
                                     required_device_extensions) # <<>>
             THEN <<>>
             ELSE filter_map_queries(devices, collected, i + 1,
                                     required_device_extensions))

\* All the queries of select_physical_device, in the order it issues them.
select_physical_device_queries(drv, required_device_extensions) ==
    <<Query("enumerate_physical_devices", 0, -1)>>
    \o (IF ~IsOk(drv) THEN <<>>
        ELSE LET devices == drv.val
                 collected == devices_and_queues(devices)
             IN devices_and_queues_queries(devices, 1)
                \o (IF ~IsOk(collected) THEN <<>>
                    ELSE filter_map_queries(devices, collected.val, 1,
                                            required_device_extensions)))

select_physical_device(drv, required_device_extensions) ==
    IF ~IsOk(drv) THEN Err(VkError)
    ELSE LET devices == drv.val
             collected == devices_and_queues(devices)
         IN IF ~IsOk(collected) THEN Err(VkError)
            ELSE LET found == {i \in 1..Len(devices) :
                                 filter_map_candidate(i, devices[i], collected.val[i],
                                                      required_device_extensions) # <<>>}
                 IN IF found = {} THEN Err(NoSuitableDevice)
                    ELSE LET first == CHOOSE i \in found : \A j \in found : i <= j
                         IN Ok(filter_map_candidate(first, devices[first],
                                                    collected.val[first],
                                                    required_device_extensions)[1])

----------------------------------------------------------------------------
(* LogicalContextBuilder.  create_ok is the driver's answer to             *)
(* create_device.  A queue handle is <<family index, queue index>>.        *)

\* create_logical_device that requests a queue of the graphics family only.
create_logical_device_graphics_only(physical_info, create_ok) ==
    LET queue_create_infos ==
            <<[queue_family_index |-> physical_info.graphics_family_index,
               queue_priorities |-> <<1>>]>>
    IN IF ~create_ok THEN Err(VkError)
       ELSE Ok([queue_create_infos |-> queue_create_infos,
                graphics_queue |-> <<physical_info.graphics_family_index, 0>>,
                present_queue |-> <<physical_info.present_family_index, 0>>])

create_logical_device(physical_info, create_ok) ==
    LET queue_create_infos ==
            [k \in 1..Len(physical_info.dedup_family_indices) |->
                [queue_family_index |-> physical_info.dedup_family_indices[k],
                 queue_priorities |-> <<1>>]]
    IN IF ~create_ok THEN Err(VkError)
       ELSE Ok([queue_create_infos |-> queue_create_infos,
                graphics_queue |-> <<physical_info.graphics_family_index, 0>>,
                present_queue |-> <<physical_info.present_family_index, 0>>])

----------------------------------------------------------------------------
(* ContextChain.  A context is a record                                    *)
(*   kind      "Surface", "Device", "Swapchain" or "RenderPass"            *)
(*   parent    the context its Rc field points to (0 for the surface)      *)
(*   state     "Active" from construction, "Destroyed" once Drop has run   *)
(*   strong    the strong count of the Rc that holds it                    *)
(*   physical_info, logical_info   the fields of a DeviceCtx               *)
(* The three shared parts of the state that a drop changes travel together *)
(* as st = [ctx, native, released].                                        *)

NoPhysicalInfo == PhysicalDeviceInfo(0, 0, 0)

NoLogicalInfo == [queue_create_infos |-> <<>>, graphics_queue |-> <<>>,
                  present_queue |-> <<>>]

Context(kind, parent, physical_info, logical_info) ==
    [kind |-> kind, parent |-> parent, state |-> "Active", strong |-> 1,
     physical_info |-> physical_info, logical_info |-> logical_info]

St == [ctx |-> ctx, native |-> native, released |-> released]

\* A native destroy call on the object of context n.
destroy_native(st, n) ==
    [st EXCEPT !.ctx[n].state = "Destroyed",
               !.native = @ \ {n},
               !.released = Append(@, n)]

\* impl Drop for DeviceCtx: destroy_device.
DeviceCtx_drop(st, n) == destroy_native(st, n)

\* A RenderPassCtx destructor that calls destroy_render_pass twice.
RenderPassCtx_drop_twice(st, n) == destroy_native(destroy_native(st, n), n)

\* impl Drop for RenderPassCtx: destroy_render_pass through the device of
\* the swapchain this render pass points to.
RenderPassCtx_drop(st, n) == destroy_native(st, n)

\* The destructors of SwapchainCtx and SurfaceCtx (swapchain.rs, surface.rs).
SwapchainCtx_drop(st, n) == destroy_native(st, n)

SurfaceCtx_drop(st, n) == destroy_native(st, n)

RECURSIVE rc_drop(_, _)

\* Dropping a context in place: its Drop::drop runs, then its fields are
\* dropped, among them the Rc to its parent.
DeviceCtx_drop_in_place(st, n) ==
    rc_drop(DeviceCtx_drop(st, n), st.ctx[n].parent)

\* RenderPassCtx dropped with the Rc to its swapchain released before its
\* own render pass is destroyed.
RenderPassCtx_drop_in_place_parent_first(st, n) ==
    RenderPassCtx_drop(rc_drop(st, st.ctx[n].parent), n)

RenderPassCtx_drop_in_place(st, n) ==
    rc_drop(RenderPassCtx_drop(st, n), st.ctx[n].parent)

SwapchainCtx_drop_in_place(st, n) ==
    rc_drop(SwapchainCtx_drop(st, n), st.ctx[n].parent)

SurfaceCtx_drop_in_place(st, n) == SurfaceCtx_drop(st, n)

\* Dropping one Rc handle to context n: the strong count goes down by one
\* and the context is dropped in place when it reaches zero.
rc_drop(st, n) ==
    LET st1 == [st EXCEPT !.ctx[n].strong = @ - 1]
    IN IF st1.ctx[n].strong > 0 THEN st1
       ELSE CASE st.ctx[n].kind = "Device" -> DeviceCtx_drop_in_place(st1, n)
              [] st.ctx[n].kind = "RenderPass" -> RenderPassCtx_drop_in_place(st1, n)
              [] st.ctx[n].kind = "Swapchain" -> SwapchainCtx_drop_in_place(st1, n)
              [] st.ctx[n].kind = "Surface" -> SurfaceCtx_drop_in_place(st1, n)

SetSt(st) ==
    /\ ctx' = st.ctx
    /\ native' = st.native
    /\ released' = st.released

Call(op, result, parent, new, create_device) ==
    [op |-> op, tag |-> result.tag,
     err |-> IF IsOk(result) THEN "" ELSE result.val,
     parent |-> parent, ctx |-> new, create_device |-> create_device]

NoCall == [op |-> "none", tag |-> "Ok", err |-> "", parent |-> 0, ctx |-> 0,
           create_device |-> <<>>]

Holds(n, kind) ==
    /\ n \in 1..Len(ctx)
    /\ ctx[n].kind = kind
    /\ host[n] >= 1

\* A constructor that returns Err drops its argument, the Rc to the parent.
ConstructionFailed(op, result, parent, create_device) ==
    /\ outcome' = Call(op, result, parent, 0, create_device)
    /\ host' = [host EXCEPT ![parent] = @ - 1]
    /\ SetSt(rc_drop(St, parent))

\* A constructor that returns Ok(Rc::new(..)) moves its argument into the
\* new context and hands the only Rc to the new context to the caller.
Constructed(op, parent, new_ctx, create_device) ==
    /\ outcome' = Call(op, Ok(0), parent, Len(ctx) + 1, create_device)
    /\ host' = Append([host EXCEPT ![parent] = @ - 1], 1)
    /\ ctx' = Append(ctx, new_ctx)
    /\ native' = native \cup {Len(ctx) + 1}
    /\ released' = released

----------------------------------------------------------------------------
(* The operations. *)

\* DeviceCtx::new that calls create_logical_device a second time when the
\* first call fails.
DeviceCtxNew_retry(s, create_ok) ==
    /\ Holds(s, "Surface")
    /\ Len(ctx) < MaxCtx
    /\ LET required_ext == get_required_device_extensions
           physical_info == select_physical_device(driver, required_ext)
       IN /\ sel' = physical_info
          /\ IF ~IsOk(physical_info)
             THEN ConstructionFailed("DeviceCtx::new", physical_info, s, <<>>)
             ELSE LET logical_info == create_logical_device(physical_info.val, create_ok)
                      device == physical_info.val.device
                  IN IF ~IsOk(logical_info)
                     THEN ConstructionFailed("DeviceCtx::new", logical_info, s,
                                             <<device, device>>)
                     ELSE Constructed("DeviceCtx::new", s,
                                      Context("Device", s, physical_info.val,
                                              logical_info.val),
                                      <<device>>)
    /\ UNCHANGED <<driver, qf, support, waited>>

\* DeviceCtx::new(surface_ctx): the caller moves one of its handles in.
DeviceCtxNew(s, create_ok) ==
    /\ Holds(s, "Surface")
    /\ Len(ctx) < MaxCtx
    /\ LET required_ext == get_required_device_extensions
           physical_info == select_physical_device(driver, required_ext)
       IN /\ sel' = physical_info
          /\ IF ~IsOk(physical_info)
             THEN ConstructionFailed("DeviceCtx::new", physical_info, s, <<>>)
             ELSE LET logical_info == create_logical_device(physical_info.val, create_ok)
                      attempted == <<physical_info.val.device>>
                  IN IF ~IsOk(logical_info)
                     THEN ConstructionFailed("DeviceCtx::new", logical_info, s, attempted)
                     ELSE Constructed("DeviceCtx::new", s,
                                      Context("Device", s, physical_info.val,
                                              logical_info.val),
                                      attempted)
    /\ UNCHANGED <<driver, qf, support, waited>>

\* SwapchainCtx::new(device_ctx) (swapchain.rs): create_ok is the driver's
\* answer to the creation of the swapchain.
SwapchainCtxNew(d, create_ok) ==
    /\ Holds(d, "Device")
    /\ Len(ctx) < MaxCtx
    /\ IF ~create_ok
       THEN ConstructionFailed("SwapchainCtx::new", Err(VkError), d, <<>>)
       ELSE Constructed("SwapchainCtx::new", d,
                        Context("Swapchain", d, NoPhysicalInfo, NoLogicalInfo), <<>>)
    /\ UNCHANGED <<driver, qf, sel, support, waited>>

\* RenderPassCtx::new that keeps no Rc to the swapchain in the new context.
RenderPassCtxNew_unowned(sc, create_ok) ==
    /\ Holds(sc, "Swapchain")
    /\ Len(ctx) < MaxCtx
    /\ IF ~create_ok
       THEN ConstructionFailed("RenderPassCtx::new", Err(VkError), sc, <<>>)
       ELSE LET st == rc_drop(St, sc)
            IN /\ outcome' = Call("RenderPassCtx::new", Ok(0), sc, Len(ctx) + 1, <<>>)
               /\ host' = Append([host EXCEPT ![sc] = @ - 1], 1)
               /\ ctx' = Append(st.ctx, Context("RenderPass", sc, NoPhysicalInfo,
                                                NoLogicalInfo))
               /\ native' = st.native \cup {Len(ctx) + 1}
               /\ released' = st.released
    /\ UNCHANGED <<driver, qf, sel, support, waited>>

\* RenderPassCtx::new that returns Err after create_render_pass succeeded,
\* without destroying the render pass.
RenderPassCtxNew_leaks_render_pass(sc, create_ok) ==
    /\ Holds(sc, "Swapchain")
    /\ Len(ctx) < MaxCtx
    /\ IF ~create_ok
       THEN LET st == rc_drop(St, sc)
            IN /\ outcome' = Call("RenderPassCtx::new", Err(VkError), sc, 0, <<>>)
               /\ host' = [host EXCEPT ![sc] = @ - 1]
               /\ ctx' = st.ctx
               /\ native' = st.native \cup {Len(ctx) + 1}
               /\ released' = st.released
       ELSE Constructed("RenderPassCtx::new", sc,
                        Context("RenderPass", sc, NoPhysicalInfo, NoLogicalInfo), <<>>)
    /\ UNCHANGED <<driver, qf, sel, support, waited>>

\* RenderPassCtx::new(swapchain_ctx): create_ok is the driver's answer to
\* create_render_pass.
RenderPassCtxNew(sc, create_ok) ==
    /\ Holds(sc, "Swapchain")
    /\ Len(ctx) < MaxCtx
    /\ IF ~create_ok
       THEN ConstructionFailed("RenderPassCtx::new", Err(VkError), sc, <<>>)
       ELSE Constructed("RenderPassCtx::new", sc,
                        Context("RenderPass", sc, NoPhysicalInfo, NoLogicalInfo), <<>>)
    /\ UNCHANGED <<driver, qf, sel, support, waited>>

\* Rc::clone of a handle the host holds.
CloneRef(n) ==
    /\ n \in 1..Len(ctx)
    /\ host[n] >= 1
    /\ host[n] < MaxHostRefs
    /\ host' = [host EXCEPT ![n] = @ + 1]
    /\ ctx' = [ctx EXCEPT ![n].strong = @ + 1]
    /\ UNCHANGED <<driver, qf, sel, support, outcome, native, released, waited>>

\* The host drops one of its handles.
DropRef(n) ==
    /\ n \in 1..Len(ctx)
    /\ host[n] >= 1
    /\ host' = [host EXCEPT ![n] = @ - 1]
    /\ SetSt(rc_drop(St, n))
    /\ UNCHANGED <<driver, qf, sel, support, outcome, waited>>

\* DeviceCtx::wait_for_idle: wait_ok is the driver's answer to device_wait_idle.
WaitForIdle(d, wait_ok) ==
    /\ Holds(d, "Device")
    /\ waited' = IF wait_ok THEN waited \cup {d} ELSE waited
    /\ UNCHANGED <<driver, qf, sel, support, outcome, ctx, host, native, released>>

\* DeviceCtx::current_swapchain_support that answers from the result it
\* returned before.
CurrentSwapchainSupport_cached(d) ==
    /\ Holds(d, "Device")
    /\ ctx[d].state = "Active"
    /\ support' =
          [ctx |-> d,
           result |-> IF support.ctx = d THEN support.result
                      ELSE current_swapchain_support_impl(
                               driver.val[ctx[d].physical_info.device]),
           changed |-> FALSE,
           repeated |-> support.ctx = d /\ ~support.changed]
    /\ UNCHANGED <<driver, qf, sel, outcome, ctx, host, native, released,
                   waited>>

\* DeviceCtx::current_swapchain_support that keeps a handle to the surface.
CurrentSwapchainSupport_keeps_handle(d) ==
    /\ Holds(d, "Device")
    /\ ctx[d].state = "Active"
    /\ support' =
          [ctx |-> d,
           result |-> current_swapchain_support_impl(
                          driver.val[ctx[d].physical_info.device]),
           changed |-> FALSE,
           repeated |-> support.ctx = d /\ ~support.changed]
    /\ ctx' = [ctx EXCEPT ![ctx[d].parent].strong = @ + 1]
    /\ UNCHANGED <<driver, qf, sel, outcome, host, native, released, waited>>

\* DeviceCtx::current_swapchain_support(&self) on a device context the host
\* holds.  `changed` and `repeated` record whether the surface changed since
\* the call and whether the call repeats one on the same context with no
\* change in between.
CurrentSwapchainSupport(d) ==
    /\ Holds(d, "Device")
    /\ ctx[d].state = "Active"
    /\ support' =
          [ctx |-> d,
           result |-> current_swapchain_support_impl(
                          driver.val[ctx[d].physical_info.device]),
           changed |-> FALSE,
           repeated |-> support.ctx = d /\ ~support.changed]
    /\ UNCHANGED <<driver, qf, sel, outcome, ctx, host, native, released,
                   waited>>

\* The surface changes (a window resize): the driver's answers to the three
\* surface queries for the i-th device become surf.
SurfaceChange(i, surf) ==
    /\ IsOk(driver)
    /\ i \in 1..Len(driver.val)
    /\ driver' = [driver EXCEPT !.val[i] = Device(@.families, @.extensions, surf)]
    /\ driver' # driver
    /\ support' = [support EXCEPT !.changed = TRUE]
    /\ UNCHANGED <<qf, sel, outcome, ctx, host, native, released, waited>>

\* find_queue_families on the i-th enumerated device.
FindQueueFamilies(i) ==
    /\ qf.device = 0
    /\ qf' = [device |-> i, result |-> find_queue_families(driver.val[i]),
              queries |-> find_queue_families_queries(i, driver.val[i])]
    /\ UNCHANGED <<driver, sel, support, outcome, ctx, host, native,
                   released, waited>>

----------------------------------------------------------------------------
(* Initial states.  The surface context exists, held by the host through   *)
(* one handle; its construction (surface.rs) is not part of this model.    *)

NoQf == [device |-> 0, result |-> Ok(<<>>), queries |-> <<>>]

NoSel == [tag |-> "None", val |-> ""]

NoSupport == [ctx |-> 0, result |-> Err(""), changed |-> FALSE, repeated |-> FALSE]

InitChain ==
    /\ qf = NoQf
    /\ sel = NoSel
    /\ support = NoSupport
    /\ outcome = NoCall
    /\ ctx = <<Context("Surface", 0, NoPhysicalInfo, NoLogicalInfo)>>
    /\ host = <<1>>
    /\ native = {1}
    /\ released = <<>>
    /\ waited = {}

\* The queue-family lists of the devices of an enumeration.
SelectFamilies ==
    { <<Fam(1, FALSE, "true")>>,
      <<Fam(1, TRUE, "true")>>,
      <<Fam(1, TRUE, "false"), Fam(1, FALSE, "true")>>,
      <<Fam(1, TRUE, "err")>>,
      <<Fam(0, FALSE, "false"), Fam(1, TRUE, "true")>>,
      <<Fam(1, FALSE, "false"), Fam(1, FALSE, "false"), Fam(1, TRUE, "true")>> }

SelectDevices ==
    {Device(fams, exts, surf) :
        fams \in SelectFamilies, exts \in ExtensionAnswers, surf \in SurfaceAnswers}

Enumerations == {Err(VkError)} \cup {Ok(ds) : ds \in SeqsUpTo(SelectDevices, MaxDevices)}

\* A device with graphics and present on one family, and one with two.
ChainDevices ==
    {Device(fams, Ok(<<SwapchainExtension>>), GoodSurface) :
        fams \in { <<Fam(1, TRUE, "true")>>,
                   <<Fam(1, TRUE, "false"), Fam(1, FALSE, "true")>> }}

----------------------------------------------------------------------------
(* Spec: the context chain on a machine with one adequate device, or none. *)

Init ==
    /\ driver \in {Ok(<<>>)} \cup {Ok(<<d>>) : d \in ChainDevices}
    /\ InitChain

Next ==
    \/ \E s \in 1..Len(ctx), ok \in BOOLEAN : DeviceCtxNew(s, ok)
    \/ \E n \in 1..Len(ctx) : DropRef(n)
    \/ \E n \in 1..Len(ctx) : CloneRef(n)
    \/ \E d \in 1..Len(ctx), ok \in BOOLEAN : WaitForIdle(d, ok)
    \/ \E sc \in 1..Len(ctx), ok \in BOOLEAN : RenderPassCtxNew(sc, ok)
    \/ \E d \in 1..Len(ctx), ok \in BOOLEAN : SwapchainCtxNew(d, ok)

Spec == Init /\ [][Next]_vars

----------------------------------------------------------------------------
(* SpecSelect: DeviceCtx::new on every enumeration of at most MaxDevices   *)
(* devices.                                                                *)

InitSelect ==
    /\ driver \in Enumerations
    /\ InitChain

NextSelect ==
    \E s \in 1..Len(ctx), ok \in BOOLEAN : DeviceCtxNew(s, ok)

SpecSelect == InitSelect /\ [][NextSelect]_vars

----------------------------------------------------------------------------
(* SpecProbe: the probes on a machine with one device whose surface        *)
(* answers change, next to DeviceCtx::new and the host's handles.          *)

InitProbe ==
    /\ driver \in {Ok(<<Device(d.families, d.extensions, surf)>>) :
                      d \in ChainDevices, surf \in SurfaceAnswers}
    /\ InitChain

NextProbe ==
    \/ \E s \in 1..Len(ctx), ok \in BOOLEAN :
          Len(ctx) < MaxProbeCtx /\ DeviceCtxNew(s, ok)
    \/ \E d \in 1..Len(ctx) : CurrentSwapchainSupport(d)
    \/ \E i \in 1..Len(driver.val), surf \in SurfaceAnswers : SurfaceChange(i, surf)
    \/ \E i \in 1..Len(driver.val) : FindQueueFamilies(i)
    \/ \E n \in 1..Len(ctx) : CloneRef(n)
    \/ \E n \in 1..Len(ctx) : DropRef(n)

SpecProbe == InitProbe /\ [][NextProbe]_vars

----------------------------------------------------------------------------
(* SpecQF: find_queue_families on every list of at most MaxFamilies queue  *)
(* families.                                                               *)

InitQF ==
    /\ driver \in {Ok(<<Device(fams, Ok(<<SwapchainExtension>>), GoodSurface)>>) :
                      fams \in FamilyLists}
    /\ InitChain

NextQF == \E i \in 1..Len(driver.val) : FindQueueFamilies(i)

SpecQF == InitQF /\ [][NextQF]_vars

----------------------------------------------------------------------------
(* The adequacy predicates of the specification, stated on the driver's    *)
(* data for a device.                                                      *)

Min(S) == CHOOSE x \in S : \A y \in S : x <= y

QueueFamiliesResolved(device) ==
    LET r == find_queue_families(device) IN IsOk(r) /\ Len(r.val) = 2

ExtensionsSupported(device) ==
    /\ device.extensions.tag = "Ok"
    /\ \E k \in 1..Len(device.extensions.val) :
          device.extensions.val[k] = SwapchainExtension

SwapchainAdequate(device) ==
    /\ device.capabilities.tag = "Ok"
    /\ device.formats.tag = "Ok"
    /\ device.present_modes.tag = "Ok"
    /\ Len(device.formats.val) >= 1
    /\ Len(device.present_modes.val) >= 1

Adequate(device) ==
    /\ QueueFamiliesResolved(device)
    /\ ExtensionsSupported(device)
    /\ SwapchainAdequate(device)

AdequateDevices == {i \in 1..Len(driver.val) : Adequate(driver.val[i])}

\* Some capability query on the device fails.
HasFailingQuery(device) ==
    \/ \E k \in 1..Len(device.families) : device.families[k].present = "err"
    \/ device.extensions.tag = "Err"
    \/ device.capabilities.tag = "Err"
    \/ device.formats.tag = "Err"
    \/ device.present_modes.tag = "Err"

Selected == sel.tag # "None" /\ driver.tag = "Ok"

----------------------------------------------------------------------------
(* C1: whenever the enumeration contains an adequate device,               *)
(* select_physical_device returns the first adequate device in             *)
(* enumeration order.                                                      *)
C1_FirstAdequateReturned ==
    (Selected /\ AdequateDevices # {}) =>
        (sel.tag = "Ok" /\ sel.val.device = Min(AdequateDevices))

(* C3: a failing capability query on one candidate only rejects that       *)
(* candidate: when some enumerated device has a failing query and another  *)
(* device is adequate, the selection still returns the first adequate one. *)
C3_QueryFailureOnlyRejectsCandidate ==
    (/\ Selected
     /\ \E i \in 1..Len(driver.val) : HasFailingQuery(driver.val[i])
     /\ AdequateDevices # {}) =>
        (/\ sel.tag = "Ok"
         /\ sel.val.device \in AdequateDevices
         /\ \A j \in AdequateDevices : sel.val.device <= j)

\* The families find_queue_families scans: those with at least one queue,
\* named by the device's own 0-based index.
ScannedFamilies(device) ==
    {i \in 0..(Len(device.families) - 1) : device.families[i + 1].queue_count > 0}

GraphicsFamilies(device) ==
    {i \in ScannedFamilies(device) : device.families[i + 1].graphics}

PresentFamilies(device) ==
    {i \in ScannedFamilies(device) : device.families[i + 1].present = "true"}

(* C4: when no present-support query fails, find_queue_families returns    *)
(* (g, p) with g the lowest own index of a family with GRAPHICS and p the  *)
(* lowest own index of a family that supports presentation, and None if    *)
(* and only if there is no graphics family or no present family.           *)
C4_LowestOwnIndices ==
    (/\ qf.device # 0
     /\ \A k \in 1..Len(driver.val[qf.device].families) :
           driver.val[qf.device].families[k].present # "err") =>
        LET device == driver.val[qf.device]
            G == GraphicsFamilies(device)
            P == PresentFamilies(device)
        IN /\ qf.result.tag = "Ok"
           /\ qf.result.val = IF G = {} \/ P = {} THEN <<>> ELSE <<Min(G), Min(P)>>

(* C5: a candidate is accepted by the selection (the closure of filter_map  *)
(* yields Some for it) if and only if its queue families resolved, it      *)
(* supports every required extension and it has at least one surface       *)
(* format and one present mode; the device the selection returns satisfies *)
(* all three.                                                              *)
C5_AcceptedIffAdequate ==
    Selected =>
        /\ \A i \in 1..Len(driver.val) :
              LET queues == find_queue_families(driver.val[i])
              IN queues.tag = "Ok" =>
                   ( filter_map_candidate(i, driver.val[i], queues.val,
                                          get_required_device_extensions) # <<>>
                     <=> Adequate(driver.val[i]) )
        /\ sel.tag = "Ok" => Adequate(driver.val[sel.val.device])

\* The first device has queue families and an adequate swapchain but lacks
\* the swapchain extension; the selection returned the second device.
C5_Witness ==
    /\ Selected
    /\ sel.tag = "Ok"
    /\ sel.val.device = 2
    /\ QueueFamiliesResolved(driver.val[1])
    /\ SwapchainAdequate(driver.val[1])
    /\ ~ExtensionsSupported(driver.val[1])

(* C6: when the enumeration is empty or holds no adequate device,          *)
(* DeviceCtx::new fails with "No suitable physical device", never calls    *)
(* create_device and constructs no DeviceCtx.                              *)
C6_NoSuitableDevice ==
    (Selected /\ AdequateDevices = {}) =>
        /\ outcome.op = "DeviceCtx::new"
        /\ outcome.tag = "Err"
        /\ outcome.err = NoSuitableDevice
        /\ outcome.create_device = <<>>
        /\ outcome.ctx = 0
        /\ \A n \in 1..Len(ctx) : ctx[n].kind # "Device"

(* C10: the dedup_family_indices of a selected device is <<g>> when the    *)
(* graphics and present indices are equal and otherwise holds exactly g    *)
(* and p, each once.                                                       *)
C10_DedupFamilyIndices ==
    sel.tag = "Ok" =>
        LET g == sel.val.graphics_family_index
            p == sel.val.present_family_index
            d == sel.val.dedup_family_indices
        IN /\ Range(d) = {g, p}
           /\ Len(d) = Cardinality({g, p})
           /\ g = p => d = <<g>>
           /\ g # p => Len(d) = 2

C10_Witness ==
    /\ sel.tag = "Ok"
    /\ sel.val.graphics_family_index # sel.val.present_family_index
    /\ Len(sel.val.dedup_family_indices) = 2

----------------------------------------------------------------------------
(* The context chain. *)

Contexts == 1..Len(ctx)

Children(n) == {m \in Contexts : ctx[m].parent = n}

\* The position of context n in the release order.
Pos(n) == CHOOSE i \in 1..Len(released) : released[i] = n

(* C2: native resources are released child before parent, whatever the     *)
(* order in which the handles are dropped: a context whose parent's        *)
(* resource is released had its own resource released before, so a chain   *)
(* Surface, Device, Swapchain, RenderPass is released RenderPass,          *)
(* Swapchain, Device, Surface.                                             *)
C2_ReleaseOrder ==
    /\ \A n \in Contexts :
          (ctx[n].parent # 0 /\ ctx[n].parent \in Range(released)) =>
             (n \in Range(released) /\ Pos(n) < Pos(ctx[n].parent))
    /\ \A r \in Contexts :
          (ctx[r].kind = "RenderPass" /\ ctx[r].state = "Destroyed") =>
             LET sc == ctx[r].parent
                 d == ctx[sc].parent
                 s == ctx[d].parent
             IN /\ ctx[sc].state = "Destroyed" => Pos(r) < Pos(sc)
                /\ ctx[d].state = "Destroyed" => Pos(sc) < Pos(d)
                /\ ctx[s].state = "Destroyed" => Pos(d) < Pos(s)

\* The whole chain was built and torn down.
C2_Witness ==
    /\ Len(ctx) = 4
    /\ ctx[1].kind = "Surface" /\ ctx[2].kind = "Device"
    /\ ctx[3].kind = "Swapchain" /\ ctx[4].kind = "RenderPass"
    /\ released = <<4, 3, 2, 1>>

(* C7: a destroyed logical device was waited idle before.                  *)
C7_IdleBeforeDestroy ==
    \A n \in Contexts :
        (ctx[n].kind = "Device" /\ ctx[n].state = "Destroyed") => n \in waited

(* C8: a context whose native resource is destroyed has a reference count  *)
(* of zero, no handle left with the host, and only destroyed children.     *)
C8_NoDestroyWhileHeld ==
    \A n \in Contexts :
        /\ (ctx[n].state = "Destroyed") <=> (n \notin native)
        /\ ctx[n].state = "Destroyed" =>
              /\ ctx[n].strong = 0
              /\ host[n] = 0
              /\ \A m \in Children(n) : ctx[m].state = "Destroyed"

\* A context held by the host and by two children outlived one of them.
C8_Witness ==
    \E n \in Contexts :
        /\ ctx[n].state = "Active"
        /\ host[n] >= 1
        /\ \E m1, m2 \in Children(n) :
              ctx[m1].state = "Destroyed" /\ ctx[m2].state = "Active"

(* C9: a step of DeviceCtx::new or RenderPassCtx::new that returns Err     *)
(* constructs no context, leaves every allocated native resource with an   *)
(* Active owner and allocates none, and releases the handle to the parent  *)
(* that was passed in: the parent's count is its count without that        *)
(* handle.                                                                 *)
C9_ConstructionAtomic ==
    [][ \A p \in 1..Len(ctx), ok \in BOOLEAN :
          (/\ outcome'.tag = "Err"
           /\ outcome'.parent = p
           /\ (DeviceCtxNew(p, ok) \/ RenderPassCtxNew(p, ok))) =>
             /\ Len(ctx') = Len(ctx)
             /\ outcome'.ctx = 0
             /\ native' = {n \in 1..Len(ctx') : ctx'[n].state = "Active"}
             /\ native' \subseteq native
             /\ host'[p] = host[p] - 1
             /\ ctx'[p].strong = ctx[p].strong - 1 ]_vars

\* create_render_pass failed on a swapchain that is still held elsewhere.
C9_Witness ==
    /\ outcome.op = "RenderPassCtx::new"
    /\ outcome.tag = "Err"
    /\ ctx[outcome.parent].state = "Active"
    /\ \A n \in Contexts : ctx[n].kind # "RenderPass"

----------------------------------------------------------------------------
(* Logical-device creation. *)

(* C11: when the selection returned a device, create_device is attempted   *)
(* exactly once, on that device; if it fails, DeviceCtx::new returns its   *)
(* error and constructs nothing: no retry and no later candidate.          *)
C11_CreateDeviceOnceNoFallback ==
    (outcome.op = "DeviceCtx::new" /\ sel.tag = "Ok") =>
        /\ outcome.create_device = <<sel.val.device>>
        /\ outcome.tag = "Err" =>
              /\ outcome.err = VkError
              /\ outcome.ctx = 0
              /\ \A n \in 1..Len(ctx) : ctx[n].kind # "Device"

\* create_device failed on the first of two adequate devices.
C11_Witness ==
    /\ outcome.op = "DeviceCtx::new"
    /\ outcome.tag = "Err"
    /\ sel.tag = "Ok"
    /\ sel.val.device = 1
    /\ Len(driver.val) = 2
    /\ Adequate(driver.val[2])

\* The families for which create_logical_device requested a queue.
RequestedFamilies(logical_info) ==
    {logical_info.queue_create_infos[k].queue_family_index :
        k \in 1..Len(logical_info.queue_create_infos)}

(* C12: a DeviceCtx's logical device was created with one queue            *)
(* descriptor per entry of dedup_family_indices, each with the single      *)
(* priority 1.0; its graphics queue is queue 0 of graphics_family_index    *)
(* and its present queue is queue 0 of present_family_index, both of a     *)
(* requested family, and they are the same queue when the indices are      *)
(* equal.                                                                  *)
C12_QueuesFromRequestedFamilies ==
    \A n \in 1..Len(ctx) :
        ctx[n].kind = "Device" =>
            LET pi == ctx[n].physical_info
                li == ctx[n].logical_info
            IN /\ Len(li.queue_create_infos) = Len(pi.dedup_family_indices)
               /\ \A k \in 1..Len(li.queue_create_infos) :
                     /\ li.queue_create_infos[k].queue_family_index
                           = pi.dedup_family_indices[k]
                     /\ li.queue_create_infos[k].queue_priorities = <<1>>
               /\ li.graphics_queue = <<pi.graphics_family_index, 0>>
               /\ li.present_queue = <<pi.present_family_index, 0>>
               /\ li.graphics_queue[1] \in RequestedFamilies(li)
               /\ li.present_queue[1] \in RequestedFamilies(li)
               /\ pi.graphics_family_index = pi.present_family_index =>
                     li.graphics_queue = li.present_queue

\* The scenario: D1 has no graphics family, D2 has graphics and present on
\* family 2; D2 was selected with the family set {2} and both queues are
\* queue 0 of family 2.
C12_Witness ==
    /\ Len(driver.val) = 2
    /\ \A k \in 1..Len(driver.val[1].families) : ~driver.val[1].families[k].graphics
    /\ Len(ctx) = 2
    /\ ctx[2].kind = "Device"
    /\ ctx[2].physical_info.device = 2
    /\ ctx[2].physical_info.dedup_family_indices = <<2>>
    /\ ctx[2].logical_info.graphics_queue = <<2, 0>>
    /\ ctx[2].logical_info.present_queue = <<2, 0>>

----------------------------------------------------------------------------
(* Probing after creation (SpecProbe). *)

\* Two results of current_swapchain_support agree: the same outcome and, on
\* success, the same sets of formats and present modes.
SameSupport(r1, r2) ==
    /\ r1.tag = r2.tag
    /\ IsOk(r1) =>
          /\ Range(r1.val.formats) = Range(r2.val.formats)
          /\ Range(r1.val.present_modes) = Range(r2.val.present_modes)

(* C13: a call of current_swapchain_support that follows a call on the     *)
(* same DeviceCtx with no change of the surface in between returns the     *)
(* same outcome and the same format and present-mode sets; and every call  *)
(* answers from the driver's data at the time of the call: it fails iff    *)
(* one of the three surface queries fails now, and otherwise returns the   *)
(* formats and present modes the surface has now.                          *)
C13_RequeriedEachTime ==
    [][\A d \in 1..Len(ctx) :
          CurrentSwapchainSupport(d) =>
              LET device == driver.val[ctx[d].physical_info.device]
                  now_ok == /\ IsOk(device.capabilities)
                            /\ IsOk(device.formats)
                            /\ IsOk(device.present_modes)
              IN /\ (support.ctx = d /\ ~support.changed) =>
                        SameSupport(support'.result, support.result)
                 /\ IsOk(support'.result) <=> now_ok
                 /\ now_ok =>
                       /\ Range(support'.result.val.formats)
                             = Range(device.formats.val)
                       /\ Range(support'.result.val.present_modes)
                             = Range(device.present_modes.val)]_vars

\* current_swapchain_support was called twice in a row on a DeviceCtx and
\* reports no format, which the surface had when the device was selected:
\* the surface changed after the creation and the calls show it.
C13_Witness ==
    /\ support.ctx # 0
    /\ support.repeated
    /\ ~support.changed
    /\ ctx[support.ctx].kind = "Device"
    /\ IsOk(support.result)
    /\ support.result.val.formats = <<>>

\* What probing must leave alone: the driver's data, every context's state
\* and reference count, the host's handles and the native objects.
ProbeFrame == UNCHANGED <<driver, ctx, host, native, released>>

(* C14: a step of find_queue_families or of current_swapchain_support      *)
(* leaves the native objects, every context's lifecycle state and every    *)
(* context's reference count unchanged; and the selection inside           *)
(* DeviceCtx::new adds nothing to the constructor's own effect: when the   *)
(* selection fails the step is the drop of the handle that was moved in,   *)
(* and when the context is constructed the only new native object is the   *)
(* new logical device and no existing context changes.                     *)
C14_ProbingHasNoSideEffects ==
    [][/\ (\E i \in 1..Len(driver.val) : FindQueueFamilies(i)) => ProbeFrame
       /\ (\E d \in 1..Len(ctx) : CurrentSwapchainSupport(d)) => ProbeFrame
       /\ \A s \in 1..Len(ctx), create_ok \in BOOLEAN :
             (host'[s] = host[s] - 1 /\ DeviceCtxNew(s, create_ok)) =>
                 /\ driver' = driver
                 /\ sel'.tag = "Err" =>
                       /\ SetSt(rc_drop(St, s))
                       /\ ctx[s].strong > 1 =>
                             /\ native' = native
                             /\ released' = released
                             /\ ctx' = [ctx EXCEPT ![s].strong = @ - 1]
                 /\ outcome'.tag = "Ok" =>
                       /\ native' = native \cup {Len(ctx) + 1}
                       /\ released' = released
                       /\ \A n \in 1..Len(ctx) : ctx'[n] = ctx[n]]_vars

\* Both probes ran and a selection failed while a device context that was
\* created earlier is still alive.
C14_Witness ==
    /\ qf.device # 0
    /\ support.ctx # 0
    /\ outcome.op = "DeviceCtx::new"
    /\ sel.tag = "Err"
    /\ \E n \in 1..Len(ctx) : ctx[n].kind = "Device" /\ ctx[n].state = "Active"

----------------------------------------------------------------------------
(* The order of the selection's queries (SpecSelect). *)

\* The queries the selection issued, in order.
queries == select_physical_device_queries(driver, get_required_device_extensions)

\* The positions in the query log of the queries about the i-th device.
QueriesOn(i) == {k \in 1..Len(queries) : queries[k].device = i}

\* The position at which the i-th device has passed its last adequacy
\* check: the last query of its swapchain-support probe.
PassedAt(i) ==
    {k \in QueriesOn(i) :
        queries[k].query = "get_physical_device_surface_present_modes"}

(* C15: when the enumeration contains an adequate device, no query about   *)
(* a later device is issued after the first adequate device has passed     *)
(* its checks, and the devices after it do not change the outcome: the     *)
(* selection returns what it returns on the enumeration cut after the      *)
(* first adequate device.                                                  *)
C15_StopsAtFirstAdequate ==
    (Selected /\ AdequateDevices # {}) =>
        LET first == Min(AdequateDevices)
        IN /\ \A p \in PassedAt(first), k \in 1..Len(queries) :
                 queries[k].device > first => k < p
           /\ sel = select_physical_device(Ok(SubSeq(driver.val, 1, first)),
                                           get_required_device_extensions)

----------------------------------------------------------------------------
(* The family indices of find_queue_families (SpecQF). *)

\* The own index of the k-th family the scan examines: the k-th family of
\* the device, in index order, that has at least one queue.
ExaminedFamily(device, k) ==
    CHOOSE i \in ScannedFamilies(device) :
        Cardinality({j \in ScannedFamilies(device) : j < i}) = k - 1

\* The present-support queries of the last find_queue_families, in order.
PresentSupportQueries ==
    SelectSeq(qf.queries,
              LAMBDA q : q.query = "get_physical_device_surface_support")

(* C17: the indices find_queue_families returns are own indices of         *)
(* families of the device with at least one queue, the graphics index of   *)
(* one with the GRAPHICS flag and the present index of one whose           *)
(* present-support query answers true; and the k-th present-support query  *)
(* carries the own index of the k-th family with at least one queue.       *)
C17_OwnIndicesOfNonEmptyFamilies ==
    qf.device # 0 =>
        LET device == driver.val[qf.device]
        IN /\ (IsOk(qf.result) /\ qf.result.val # <<>>) =>
                 /\ qf.result.val[1] \in GraphicsFamilies(device)
                 /\ qf.result.val[2] \in PresentFamilies(device)
           /\ Len(PresentSupportQueries) <= Cardinality(ScannedFamilies(device))
           /\ \A k \in 1..Len(PresentSupportQueries) :
                 PresentSupportQueries[k].index = ExaminedFamily(device, k)

----------------------------------------------------------------------------
(* The lifecycle of a context node (Spec). *)

\* The logical device through which the render pass of context r is
\* created and destroyed: the device of the swapchain it points to.
DeviceOf(r) == ctx[ctx[r].parent].parent

\* The contexts whose native resource a step destroys.
DestroyedByStep == {n \in Contexts : ctx[n].state = "Active" /\ ctx'[n].state = "Destroyed"}

\* Each constructed context is Active with its native resource allocated or
\* Destroyed with exactly one destroy call made for it; no destroy call is
\* made for anything that is not a constructed context.
DestroyedExactlyOnce ==
    /\ \A n \in Contexts :
          /\ ctx[n].state \in {"Active", "Destroyed"}
          /\ ctx[n].state = "Active" <=> n \in native
          /\ Cardinality({i \in 1..Len(released) : released[i] = n})
                = IF ctx[n].state = "Destroyed" THEN 1 ELSE 0
    /\ Range(released) \subseteq Contexts
    /\ native \subseteq Contexts

\* A destroyed render pass was destroyed before its logical device was.
RenderPassDestroyedThroughActiveDevice ==
    \A r \in Contexts :
        (ctx[r].kind = "RenderPass" /\ ctx[r].state = "Destroyed") =>
            (ctx[DeviceOf(r)].state = "Destroyed" => Pos(r) < Pos(DeviceOf(r)))

\* What a step may do to the lifecycle states.
LifecycleStep ==
    /\ Len(ctx') >= Len(ctx)
    /\ \A n \in Contexts :
          ctx[n].state = "Destroyed" => ctx'[n].state = "Destroyed"
    /\ \A n \in (Len(ctx) + 1)..Len(ctx') :
          /\ ctx'[n].state = "Active"
          /\ ctx[ctx'[n].parent].state = "Active"
          /\ ctx'[ctx'[n].parent].state = "Active"
          /\ outcome'.tag = "Ok"
    /\ outcome'.tag = "Err" /\ outcome' # outcome =>
          /\ Len(ctx') = Len(ctx)
          /\ Range(released') \subseteq Contexts
    /\ \A sc \in Contexts, create_ok \in BOOLEAN :
          RenderPassCtxNew(sc, create_ok) => ctx[ctx[sc].parent].state = "Active"
    /\ \A r \in DestroyedByStep :
          ctx[r].kind = "RenderPass" => ctx[DeviceOf(r)].state = "Active"

(* C16: every context is Active or Destroyed and Destroyed is terminal; a  *)
(* context becomes Active only in a successful constructor step whose      *)
(* parent is Active; each native resource is destroyed exactly once, and   *)
(* only for a constructed context; and the logical device is Active when   *)
(* create_render_pass is called on it and when destroy_render_pass is      *)
(* called on it.                                                           *)
C16_Lifecycle ==
    /\ [](DestroyedExactlyOnce /\ RenderPassDestroyedThroughActiveDevice)
    /\ [][LifecycleStep]_vars

\* A render pass was created on a logical device and destroyed, and the
\* device was destroyed later, while the surface is still Active.
C16_Witness ==
    \E r \in Contexts :
        /\ ctx[r].kind = "RenderPass"
        /\ ctx[r].state = "Destroyed"
        /\ ctx[DeviceOf(r)].state = "Destroyed"
        /\ ctx[ctx[DeviceOf(r)].parent].state = "Active"

=============================================================================
